---- MODULE Spec2Model ----
(***************************************************************************)
(* Model of the multi-threaded caching forward proxy:                      *)
(*   internal/cache/lru.go  - LRUCache (index + doubly linked recency list)*)
(*   proxy.go               - handleConnection and its helpers             *)
(*   server.go / main.go    - NewProxyServer, Start (accept loop, signal)  *)
(*                                                                         *)
(* Three specifications share the cache operators:                         *)
(*   SpecCache - one caller issuing arbitrary Put/Get/Size/Capacity calls  *)
(*   SpecConc  - several goroutines issuing cache calls, with the steps    *)
(*               inside the mutex-protected section interleaved            *)
(*   Spec      - the proxy: acceptor, semaphore, connection handlers       *)
(***************************************************************************)
EXTENDS Integers, Sequences, FiniteSets, Bags, TLC

(***************************************************************************)
(* Bounds of the model.                                                    *)
(***************************************************************************)
\* largest capacity a cache is constructed with in SpecCache
MaxCap == 3
\* node arena: number of node addresses that can be live at once
MaxNodes == 4
\* goroutines calling the cache concurrently in SpecConc
NumThreads == 2
\* capacity of the cache shared by those goroutines
ConcCap == 2
\* connections that can be open (accepted and not yet closed) at once
NumConns == 3
\* cfg.MaxClients: capacity of the semaphore channel
MaxClients == 2
\* cfg.CacheSize: capacity of the proxy's cache
ProxyCacheSize == 1

\* nil pointer
Nil == 0

NodeIds == 1..MaxNodes

\* keys used by the cache-level specifications: one more than the largest
\* capacity, so a full cache can always be offered an absent key
CacheKeys == {"k" \o ToString(i) : i \in 1..(MaxCap + 1)}

\* capacities given to NewLRUCache in SpecCache (negative, zero, positive)
Capacities == (-1)..MaxCap

(***************************************************************************)
(* lru.go:8-13  ProxyItem.  Items are never mutated after construction     *)
(* (Put replaces the pointer held by the node), so an item pointer is      *)
(* modelled by the record it points to; NoItem is the nil *ProxyItem.      *)
(***************************************************************************)
ProxyItem(status, header, body) == [Status |-> status, Header |-> header, Body |-> body]

NoItem == [Status |-> "<nil>", Header |-> "<nil>", Body |-> "<nil>"]

\* the items stored by the cache-level specifications
CacheItems == {ProxyItem("S1\r\n", "H: 1\r\n", "b1"), ProxyItem("S2\r\n", "H: 2\r\n", "b2")}

(***************************************************************************)
(* lru.go:15-21  node.  An address that holds no live node is FreeNode     *)
(* (the garbage collector reclaims a node once nothing refers to it).      *)
(***************************************************************************)
FreeNode == [key |-> "", value |-> NoItem, next |-> Nil, prev |-> Nil]

\* lru.go:33-39  NewLRUCache: size 0, head/tail nil, empty map
NewLRUCache(capacity) ==
    [size |-> 0, capacity |-> capacity, head |-> Nil, tail |-> Nil,
     items |-> << >>, node |-> [n \in NodeIds |-> FreeNode]]

\* field updates through a pointer; a write through nil is a runtime panic,
\* which cannot happen where the code guards the dereference
SetNext(c, n, v) == [c EXCEPT !.node[n].next = v]
SetPrev(c, n, v) == [c EXCEPT !.node[n].prev = v]

\* lru.go:92-118  removeNode
removeNode(c, n) ==
    LET unlinked ==
          IF c.head = n /\ c.tail = n THEN
              [c EXCEPT !.head = Nil, !.tail = Nil]
          ELSE IF n = c.head THEN
              LET c1 == [c EXCEPT !.head = c.node[n].next]
              IN  IF c1.head # Nil THEN SetPrev(c1, c1.head, Nil) ELSE c1
          ELSE IF n = c.tail THEN
              LET c1 == [c EXCEPT !.tail = c.node[n].prev]
              IN  IF c1.tail # Nil THEN SetNext(c1, c1.tail, Nil) ELSE c1
          ELSE
              LET p  == c.node[n].prev
                  x  == c.node[n].next
              IN  SetPrev(SetNext(c, p, x), x, p)
    IN  SetNext(SetPrev(unlinked, n, Nil), n, Nil)

\* moveToFront leaving the old head's prev link unset
moveToFront_NoBackLink(c, n) ==
    IF c.head = n THEN c
    ELSE IF c.head = Nil THEN
        SetNext(SetPrev([c EXCEPT !.head = n, !.tail = n], n, Nil), n, Nil)
    ELSE
        LET c1 == SetNext(c, n, c.head)
            c3 == [c1 EXCEPT !.head = n]
        IN  SetPrev(c3, n, Nil)

\* lru.go:120-140  moveToFront
moveToFront(c, n) ==
    IF c.head = n THEN c
    ELSE IF c.head = Nil THEN
        SetNext(SetPrev([c EXCEPT !.head = n, !.tail = n], n, Nil), n, Nil)
    ELSE
        LET c1 == SetNext(c, n, c.head)
            c2 == SetPrev(c1, c1.head, n)
            c3 == [c2 EXCEPT !.head = n]
        IN  SetPrev(c3, n, Nil)

\* Go map delete
MapDelete(m, k) == [x \in (DOMAIN m) \ {k} |-> m[x]]

\* Go map store
MapStore(m, k, v) == [x \in (DOMAIN m) \cup {k} |-> IF x = k THEN v ELSE m[x]]

\* evictLRU with the size decrement dropped
evictLRU_NoDecrement(c) ==
    IF c.tail = Nil THEN c
    ELSE LET t  == c.tail
             c1 == [c EXCEPT !.items = MapDelete(c.items, c.node[t].key)]
         IN  removeNode(c1, t)

\* evictLRU unlinking the head (most recently used) instead of the tail
evictLRU_Head(c) ==
    IF c.head = Nil THEN c
    ELSE LET t  == c.head
             c1 == [c EXCEPT !.items = MapDelete(c.items, c.node[t].key)]
             c2 == removeNode(c1, t)
         IN  [c2 EXCEPT !.size = c2.size - 1]

\* lru.go:142-152  evictLRU
evictLRU(c) ==
    IF c.tail = Nil THEN c
    ELSE LET t  == c.tail
             c1 == [c EXCEPT !.items = MapDelete(c.items, c.node[t].key)]
             c2 == removeNode(c1, t)
         IN  [c2 EXCEPT !.size = c2.size - 1]

\* the addresses something still refers to: the map's values, head, tail
\* and the links of such nodes
Roots(c) == {c.items[k] : k \in DOMAIN c.items} \cup ({c.head, c.tail} \ {Nil})

Live(c) ==
    LET R == Roots(c)
    IN  R \cup ({c.node[n].next : n \in R} \ {Nil}) \cup ({c.node[n].prev : n \in R} \ {Nil})

\* nodes met following next from n, at most fuel of them
RECURSIVE WalkNext(_, _, _)
WalkNext(c, n, fuel) ==
    IF n = Nil \/ fuel = 0 THEN << >>
    ELSE <<n>> \o WalkNext(c, c.node[n].next, fuel - 1)

\* the recency list from head as nodes (most recent first)
ListNodes(c) == WalkNext(c, c.head, MaxNodes + 1)

SeqRange(s) == {s[i] : i \in 1..Len(s)}

\* position of n in the sequence of distinct nodes L
IndexOf(L, n) == CHOOSE i \in 1..Len(L) : L[i] = n

\* garbage collection: an address nothing refers to holds no node
Collect(c) ==
    LET live == Live(c)
    IN  [c EXCEPT !.node = [n \in NodeIds |-> IF n \in live THEN c.node[n] ELSE FreeNode]]

\* Addresses are not observable by the program (nodes are only compared for
\* identity), so between calls the live nodes are renamed 1, 2, ... in list
\* order when the list holds exactly the live nodes, each once; any other
\* structure is kept as it is.
Canon(c) ==
    LET L    == ListNodes(c)
        live == Live(c)
        ok == /\ SeqRange(L) = live
              /\ Len(L) = Cardinality(live)
              /\ \A n \in live : {c.node[n].next, c.node[n].prev} \subseteq live \cup {Nil}
        ren(n) == IF n = Nil THEN Nil ELSE IndexOf(L, n)
    IN  IF ~ok THEN Collect(c)
        ELSE [c EXCEPT
                !.head = ren(c.head),
                !.tail = ren(c.tail),
                !.items = [k \in DOMAIN c.items |-> ren(c.items[k])],
                !.node = [i \in NodeIds |->
                            IF i <= Len(L)
                            THEN [key   |-> c.node[L[i]].key,
                                  value |-> c.node[L[i]].value,
                                  next  |-> ren(c.node[L[i]].next),
                                  prev  |-> ren(c.node[L[i]].prev)]
                            ELSE FreeNode]]

\* allocation (&node{...}): some address holding no live node; addresses
\* are not observable by the program, so the lowest free one is taken
HasFree(c) == NodeIds \ Live(c) # {}

NewNodeId(c) ==
    LET free == NodeIds \ Live(c)
    IN  CHOOSE n \in free : \A m \in free : n <= m

\* lru.go:46-49  the map lookup `n, ok := c.items[key]`
Lookup(c, key) == IF key \in DOMAIN c.items THEN c.items[key] ELSE Nil

\* Get's hit branch without the relink at the front
GetHit_NoMove(c, n) == c

\* lru.go:51-52  Get's hit branch: unlink the node, relink it at the front
GetHit(c, n) == moveToFront(removeNode(c, n), n)

\* Get whose miss drops the least recently used entry
Get_MissEvicts(c, key) ==
    LET n == Lookup(c, key)
    IN  IF n = Nil
        THEN [cache |-> Canon(evictLRU(c)), found |-> FALSE, item |-> NoItem]
        ELSE LET c1 == GetHit(c, n)
             IN  [cache |-> Canon(c1), found |-> TRUE, item |-> c1.node[n].value]

\* lru.go:41-55  Get (the section between Lock and the deferred Unlock)
Get(c, key) ==
    LET n == Lookup(c, key)
    IN  IF n = Nil
        THEN [cache |-> c, found |-> FALSE, item |-> NoItem]
        ELSE LET c1 == GetHit(c, n)
             IN  [cache |-> Canon(c1), found |-> TRUE, item |-> c1.node[n].value]

\* Put's update branch keeping the old value
PutExisting_KeepValue(c, n, value) == moveToFront(removeNode(c, n), n)

\* lru.go:62-68  Put's update branch
PutExisting(c, n, value) ==
    LET c1 == [c EXCEPT !.node[n].value = value]
    IN  moveToFront(removeNode(c1, n), n)

\* Put's insert branch evicting when size >= capacity (off by one)
PutNew_EvictAtCapacity(c, key, value) ==
    LET n  == NewNodeId(c)
        c1 == [c EXCEPT !.node[n] = [key |-> key, value |-> value, next |-> Nil, prev |-> Nil],
                        !.items = MapStore(c.items, key, n)]
        c2 == moveToFront(c1, n)
        c3 == [c2 EXCEPT !.size = c2.size + 1]
        c4 == IF c3.tail = Nil THEN [c3 EXCEPT !.tail = n] ELSE c3
    IN  IF c4.size >= c4.capacity THEN evictLRU(c4) ELSE c4

\* Put's insert branch evicting only under a positive capacity
PutNew_NoEvictNonPositive(c, key, value) ==
    LET n  == NewNodeId(c)
        c1 == [c EXCEPT !.node[n] = [key |-> key, value |-> value, next |-> Nil, prev |-> Nil],
                        !.items = MapStore(c.items, key, n)]
        c2 == moveToFront(c1, n)
        c3 == [c2 EXCEPT !.size = c2.size + 1]
        c4 == IF c3.tail = Nil THEN [c3 EXCEPT !.tail = n] ELSE c3
    IN  IF c4.capacity > 0 /\ c4.size > c4.capacity THEN evictLRU(c4) ELSE c4

\* lru.go:70-89  Put's insert branch
PutNew(c, key, value) ==
    LET n  == NewNodeId(c)
        c1 == [c EXCEPT !.node[n] = [key |-> key, value |-> value, next |-> Nil, prev |-> Nil],
                        !.items = MapStore(c.items, key, n)]
        c2 == moveToFront(c1, n)
        c3 == [c2 EXCEPT !.size = c2.size + 1]
        c4 == IF c3.tail = Nil THEN [c3 EXCEPT !.tail = n] ELSE c3
    IN  IF c4.size > c4.capacity THEN evictLRU(c4) ELSE c4

\* Put that links a new node without looking the key up
Put_AlwaysInsert(c, key, value) == Canon(PutNew(c, key, value))

\* lru.go:57-90  Put (the section between Lock and the deferred Unlock)
Put(c, key, value) ==
    LET n == Lookup(c, key)
    IN  Canon(IF n # Nil THEN PutExisting(c, n, value) ELSE PutNew(c, key, value))

\* lru.go:154-159  Size
Size(c) == c.size

\* lru.go:161-164  Capacity
Capacity(c) == c.capacity

(***************************************************************************)
(* Observation of a cache value (used to state properties).                *)
(***************************************************************************)
\* keys of the index
IndexKeys(c) == DOMAIN c.items

\* nodes met following prev from n, at most fuel of them
RECURSIVE WalkPrev(_, _, _)
WalkPrev(c, n, fuel) ==
    IF n = Nil \/ fuel = 0 THEN << >>
    ELSE <<n>> \o WalkPrev(c, c.node[n].prev, fuel - 1)

\* the recency list from head as keys (most recent first)
ListKeys(c) ==
    LET L == ListNodes(c)
    IN  [i \in 1..Len(L) |-> c.node[L[i]].key]

Without(s, k) == SelectSeq(s, LAMBDA x : x # k)

\* value stored for key k (k in the index)
ValueOf(c, k) == c.node[c.items[k]].value

(***************************************************************************)
(* State.                                                                  *)
(***************************************************************************)
VARIABLES
    cache,      \* the LRUCache value (lru.go:24-31, without the mutex)
    cap0,       \* the capacity NewLRUCache was called with
    hist,       \* the last completed cache call and what it returned
    useOrder,   \* keys held, by their latest Put or Get-hit, most recent first
    run,        \* the calls since construction, while they form a scenario
    mu,         \* LRUCache.mu: 0 when unlocked, else the goroutine holding it
    th,         \* per goroutine: the cache call it is executing and its locals
    lin,        \* the cache and results of the same calls run one at a time
    semaphore,  \* number of tokens in the channel ProxyServer.semaphore
    conns,      \* the running handleConnection goroutines (a bag of their locals)
    served,     \* per cached key, the bytes its storing handler wrote to its client
    proc,       \* the process: listener, accept loop, alive or exited
    clientOpen, \* number of accepted client connections not yet closed
    keyed       \* two requests and the cache keys derived from them

histVars == <<hist, useOrder, run>>

concVars == <<mu, th, lin>>

otherVars == <<proc, clientOpen, keyed>>

proxyVars == <<semaphore, conns, served, otherVars>>

vars == <<cache, cap0, hist, useOrder, run, mu, th, lin, semaphore, conns, served,
          proc, clientOpen, keyed>>

\* main.go:28-48  the process once Start is listening: the listener is open,
\* the accept loop is at listener.Accept(), the signal goroutine waits
ProcStart ==
    [listener |-> "open", acceptor |-> "accept", sig |-> "waiting", alive |-> TRUE,
     last |-> ""]

\* no requests drawn
NoKeyed == << >>

(***************************************************************************)
(* History kept beside the cache (not program state).                      *)
(***************************************************************************)
\* pos: where the key stood in the recency list before the call (0: absent);
\* old: the value it had before the call
Call(op, key, item, found, ret, pos, old) ==
    [op |-> op, key |-> key, item |-> item, found |-> found, ret |-> ret,
     pos |-> pos, old |-> old]

PosOf(c, k) ==
    LET ks == ListKeys(c)
    IN  IF k \in SeqRange(ks) THEN IndexOf(ks, k) ELSE 0

OldOf(c, k) == IF k \in DOMAIN c.items THEN ValueOf(c, k) ELSE NoItem

\* k becomes the most recently used key
Touch(order, k) == <<k>> \o Without(order, k)

\* the keys no longer held are forgotten
Held(order, c) == SelectSeq(order, LAMBDA x : x \in IndexKeys(c))

RunKeys(r) == {r.ops[i].key : i \in 1..Len(r.ops)}

PutsOnly(r) == \A i \in 1..Len(r.ops) : r.ops[i].op = "Put"

Broken == [ok |-> FALSE, ops |-> << >>]

\* the scenarios followed from construction: Puts of distinct keys, then
\* possibly a Get of the first key, then possibly one Put of a fresh key
RunPut(r, k) ==
    IF r.ok /\ k \notin RunKeys(r)
            /\ (PutsOnly(r) \/ r.ops[Len(r.ops)].op = "Get")
    THEN [r EXCEPT !.ops = Append(r.ops, [op |-> "Put", key |-> k])]
    ELSE Broken

RunGet(r, k) ==
    IF r.ok /\ PutsOnly(r) /\ Len(r.ops) >= 1 /\ r.ops[1].key = k
    THEN [r EXCEPT !.ops = Append(r.ops, [op |-> "Get", key |-> k])]
    ELSE Broken

(***************************************************************************)
(* SpecCache: one caller, any sequence of cache calls.                     *)
(***************************************************************************)
InitCache ==
    /\ cap0 \in Capacities
    /\ cache = NewLRUCache(cap0)
    /\ hist = Call("New", "", NoItem, FALSE, 0, 0, NoItem)
    /\ useOrder = << >>
    /\ run = [ok |-> TRUE, ops |-> << >>]
    /\ mu = 0
    /\ th = << >>
    /\ lin = << >>
    /\ semaphore = 0
    /\ conns = EmptyBag
    /\ served = << >>
    /\ proc = ProcStart
    /\ clientOpen = 0
    /\ keyed = NoKeyed

\* c.Put(key, value)
CachePut(key, value) ==
    /\ HasFree(cache)
    /\ cache' = Put(cache, key, value)
    /\ hist' = Call("Put", key, value, FALSE, 0, PosOf(cache, key), OldOf(cache, key))
    /\ useOrder' = Held(Touch(useOrder, key), cache')
    /\ run' = RunPut(run, key)
    /\ UNCHANGED <<cap0, concVars, proxyVars>>

\* found, item := c.Get(key)
CacheGet(key) ==
    LET r == Get(cache, key)
    IN  /\ cache' = r.cache
        /\ hist' = Call("Get", key, r.item, r.found, 0, PosOf(cache, key), OldOf(cache, key))
        /\ useOrder' = IF r.found THEN Touch(useOrder, key) ELSE useOrder
        /\ run' = RunGet(run, key)
        /\ UNCHANGED <<cap0, concVars, proxyVars>>

\* c.Size()
CacheSize ==
    /\ hist' = Call("Size", "", NoItem, FALSE, Size(cache), 0, NoItem)
    /\ UNCHANGED <<cache, cap0, useOrder, run, concVars, proxyVars>>

\* c.Capacity()
CacheCapacity ==
    /\ hist' = Call("Capacity", "", NoItem, FALSE, Capacity(cache), 0, NoItem)
    /\ UNCHANGED <<cache, cap0, useOrder, run, concVars, proxyVars>>

NextCache ==
    \/ \E k \in CacheKeys, v \in CacheItems : CachePut(k, v)
    \/ \E k \in CacheKeys : CacheGet(k)
    \/ CacheSize
    \/ CacheCapacity

SpecCache == InitCache /\ [][NextCache]_vars

(***************************************************************************)
(* SpecConc: goroutines calling Get, Put and Size on one cache.  Each call *)
(* is Lock, the map lookup, the rest of the body, and the deferred Unlock, *)
(* as separate steps that interleave with the other goroutines' steps.     *)
(***************************************************************************)
Threads == 1..NumThreads

ConcKeys == {"k1", "k2", "k3"}

Result(found, item, size) == [found |-> found, item |-> item, size |-> size]

NoResult == Result(FALSE, NoItem, -1)

Idle == [pc |-> "idle", op |-> "", key |-> "", val |-> NoItem, n |-> Nil,
         res |-> NoResult, want |-> NoResult]

\* what the call gives when run alone on cache c: the cache after it and
\* the result it returns
Alone(c, op, key, val) ==
    IF op = "Get" THEN
        LET r == Get(c, key)
        IN  [cache |-> r.cache, res |-> Result(r.found, r.item, -1)]
    ELSE IF op = "Put" THEN
        [cache |-> Put(c, key, val), res |-> NoResult]
    ELSE
        [cache |-> c, res |-> Result(FALSE, NoItem, Size(c))]

InitConc ==
    /\ cap0 = ConcCap
    /\ cache = NewLRUCache(cap0)
    /\ hist = Call("New", "", NoItem, FALSE, 0, 0, NoItem)
    /\ useOrder = << >>
    /\ run = [ok |-> TRUE, ops |-> << >>]
    /\ mu = 0
    /\ th = [t \in Threads |-> Idle]
    /\ lin = NewLRUCache(cap0)
    /\ semaphore = 0
    /\ conns = EmptyBag
    /\ served = << >>
    /\ proc = ProcStart
    /\ clientOpen = 0
    /\ keyed = NoKeyed

\* a goroutine enters Get, Put or Size
Enter(t, op, key, val) ==
    /\ th[t].pc = "idle"
    /\ th' = [th EXCEPT ![t] = [Idle EXCEPT !.pc = "lock", !.op = op, !.key = key, !.val = val]]
    /\ UNCHANGED <<cache, cap0, histVars, mu, lin, proxyVars>>

\* Lock that does not wait for the holder
MuLock_NoWait(t) ==
    /\ th[t].pc = "lock"
    /\ mu' = t
    /\ LET a == Alone(lin, th[t].op, th[t].key, th[t].val)
       IN  /\ lin' = a.cache
           /\ th' = [th EXCEPT ![t].pc = IF th[t].op = "Size" THEN "read" ELSE "lookup",
                               ![t].want = a.res]
    /\ UNCHANGED <<cache, cap0, histVars, proxyVars>>

\* lru.go:43,59,156  c.mu.Lock(): waits while another goroutine holds mu.
\* From here the call is ordered after every call that locked before it.
MuLock(t) ==
    /\ th[t].pc = "lock"
    /\ mu = 0
    /\ mu' = t
    /\ LET a == Alone(lin, th[t].op, th[t].key, th[t].val)
       IN  /\ lin' = a.cache
           /\ th' = [th EXCEPT ![t].pc = IF th[t].op = "Size" THEN "read" ELSE "lookup",
                               ![t].want = a.res]
    /\ UNCHANGED <<cache, cap0, histVars, proxyVars>>

\* lru.go:46,63  n, ok := c.items[key]
StepLookup(t) ==
    /\ th[t].pc = "lookup"
    /\ th' = [th EXCEPT ![t].pc = "body", ![t].n = Lookup(cache, th[t].key)]
    /\ UNCHANGED <<cache, cap0, histVars, mu, lin, proxyVars>>

\* lru.go:47-54  the rest of Get
StepGetBody(t) ==
    /\ th[t].pc = "body"
    /\ th[t].op = "Get"
    /\ IF th[t].n = Nil
       THEN /\ cache' = cache
            /\ th' = [th EXCEPT ![t].pc = "unlock", ![t].res = Result(FALSE, NoItem, -1)]
       ELSE LET c1 == GetHit(cache, th[t].n)
            IN  /\ cache' = Canon(c1)
                /\ th' = [th EXCEPT ![t].pc = "unlock", ![t].n = Nil,
                                    ![t].res = Result(TRUE, c1.node[th[t].n].value, -1)]
    /\ UNCHANGED <<cap0, histVars, mu, lin, proxyVars>>

\* lru.go:63-89  the rest of Put
StepPutBody(t) ==
    /\ th[t].pc = "body"
    /\ th[t].op = "Put"
    /\ HasFree(cache)
    /\ cache' = Canon(IF th[t].n # Nil
                      THEN PutExisting(cache, th[t].n, th[t].val)
                      ELSE PutNew(cache, th[t].key, th[t].val))
    /\ th' = [th EXCEPT ![t].pc = "unlock", ![t].n = Nil]
    /\ UNCHANGED <<cap0, histVars, mu, lin, proxyVars>>

\* lru.go:158  return c.size
StepSizeRead(t) ==
    /\ th[t].pc = "read"
    /\ th' = [th EXCEPT ![t].pc = "unlock", ![t].res = Result(FALSE, NoItem, Size(cache))]
    /\ UNCHANGED <<cache, cap0, histVars, mu, lin, proxyVars>>

\* lru.go:44,60,157  the deferred c.mu.Unlock(); the call returns
MuUnlock(t) ==
    /\ th[t].pc = "unlock"
    /\ mu' = 0
    /\ th' = [th EXCEPT ![t] = Idle]
    /\ UNCHANGED <<cache, cap0, histVars, lin, proxyVars>>

NextConc ==
    \E t \in Threads :
        \/ \E k \in ConcKeys : Enter(t, "Get", k, NoItem)
        \/ \E k \in ConcKeys, v \in CacheItems : Enter(t, "Put", k, v)
        \/ Enter(t, "Size", "", NoItem)
        \/ MuLock(t)
        \/ StepLookup(t)
        \/ StepGetBody(t)
        \/ StepPutBody(t)
        \/ StepSizeRead(t)
        \/ MuUnlock(t)

SpecConc == InitConc /\ [][NextConc]_vars

\* goroutines between Lock and Unlock of the cache's mutex
InSection == {t \in Threads : th[t].pc \in {"lookup", "body", "read", "unlock"}}

\* C7: Get, Put and Size calls of different goroutines exclude each other
\* (at most one is between Lock and Unlock, and it is the holder of mu);
\* whenever no call is inside, the cache is exactly the cache obtained by
\* running the calls one at a time in the order they locked, and every call
\* returns what it returns in that sequential run.
C7_CacheAtomicity ==
    /\ Cardinality(InSection) <= 1
    /\ \A t \in InSection : mu = t
    /\ mu = 0 => cache = lin
    /\ \A t \in Threads : th[t].pc = "unlock" => (th[t].res = th[t].want /\ cache = lin)

\* one goroutine is inside a Put that has filled the cache while another
\* waits at Lock for a Get of the key being put
C7_Witness ==
    \E t, u \in Threads :
        /\ t # u
        /\ th[t].pc = "unlock" /\ th[t].op = "Put"
        /\ th[u].pc = "lock" /\ th[u].op = "Get" /\ th[u].key = th[t].key
        /\ Size(cache) = Capacity(cache) /\ th[t].key \in IndexKeys(cache)

(***************************************************************************)
(* Spec: the proxy.  Start's accept loop spawns one handleConnection       *)
(* goroutine per connection; the goroutines share the semaphore channel    *)
(* and the cache.  A cache call is one step here: by C7 (SpecConc) the     *)
(* calls of different goroutines behave as if run one at a time.           *)
(***************************************************************************)
\* parsed requests (http.Request fields the proxy reads)
Request(method, host, path, query) ==
    [Method |-> method, Host |-> host, Path |-> path, Query |-> query]

NoRequest == Request("", "", "", "")

Requests == {Request("GET", "a.test", "/x", ""), Request("GET", "a.test", "/y", "")}

\* the response an origin sends for a request (http.Response fields read)
OriginResponse(req) ==
    IF req.Path = "/x"
    THEN [Proto |-> "HTTP/1.1", Status |-> "200 OK",
          Header |-> <<[name |-> "Content-Length", values |-> <<"2">>]>>, Body |-> "hi"]
    ELSE [Proto |-> "HTTP/1.1", Status |-> "404 Not Found",
          Header |-> <<[name |-> "Content-Length", values |-> <<"2">>]>>, Body |-> "no"]

\* proxy.go:16  badGatewayBody
badGatewayBody == "The target server is unavailable. Please try again later."

\* proxy.go:21-26  badGatewayResponse (Sprintf with %d of len(badGatewayBody))
badGatewayResponse ==
    "HTTP/1.1 502 Bad Gateway\r\n" \o "Content-Type: text/plain\r\n"
    \o "Content-Length: " \o ToString(Len(badGatewayBody)) \o "\r\n"
    \o "Connection: close\r\n" \o "\r\n" \o badGatewayBody

\* proxy.go:90-93  generateCacheKey
generateCacheKey(req) == req.Host \o ":" \o req.Path \o ":" \o req.Method

\* strings.Join(values, ", ")
RECURSIVE Join(_)
Join(values) ==
    IF Len(values) = 0 THEN ""
    ELSE IF Len(values) = 1 THEN values[1]
    ELSE values[1] \o ", " \o Join(Tail(values))

\* proxy.go:182-186  the header block, in the order the map is iterated
RECURSIVE HeaderBlock(_)
HeaderBlock(hs) ==
    IF Len(hs) = 0 THEN ""
    ELSE hs[1].name \o ": " \o Join(hs[1].values) \o "\r\n" \o HeaderBlock(Tail(hs))

\* proxy.go:173-192  prepareResponse.  `full` tells whether io.ReadAll of
\* the body succeeds; on a read error the body becomes empty (line 179).
prepareResponse(resp, full) ==
    [statusLine |-> resp.Proto \o " " \o resp.Status \o "\r\n",
     headers    |-> HeaderBlock(resp.Header),
     body       |-> IF full THEN resp.Body ELSE ""]

\* proxy.go:78  responseData
responseData(statusLine, headers, body) == statusLine \o headers \o "\r\n" \o body

\* sendCachedResponse's bytes without the blank line
cachedResponseData_NoBlankLine(item) == item.Status \o item.Header \o item.Body

\* proxy.go:108  the bytes sendCachedResponse writes
cachedResponseData(item) == item.Status \o item.Header \o "\r\n" \o item.Body

\* cacheResponse storing the status line only under the key
cacheResponse_DropBody(key, status, headers, body) ==
    [key |-> key, item |-> ProxyItem(status, headers, "")]

\* proxy.go:194-202  cacheResponse: the key and item given to cache.Put
cacheResponse(key, status, headers, body) ==
    [key |-> key, item |-> ProxyItem(status, headers, body)]

\* a cachedItem that is read through the cache's node for the key at the
\* time of use
Deref_ThroughCache(item, key, c) ==
    IF key \in IndexKeys(c) THEN ValueOf(c, key) ELSE NoItem

\* proxy.go:95-112, lru.go:51-54,64  cachedItem is a *ProxyItem.  Get hands
\* out the pointer the node held; Put on an existing key replaces the
\* node's value by another pointer (n.value = value), eviction unlinks the
\* node, and nothing writes the fields of a ProxyItem after cacheResponse
\* built it: dereferencing cachedItem gives the item as it was at the Get,
\* whatever the cache c holds now.
Deref(item, key, c) == item

\* proxy.go:95-104  getCachedResponse: the item, or nil on a miss
getCachedResponse(c, key) ==
    LET r == Get(c, key)
    IN  [cache |-> r.cache, item |-> IF r.found /\ r.item # NoItem THEN r.item ELSE NoItem]

(***************************************************************************)
(* The locals of one handleConnection goroutine.                           *)
(*   pc       where it stands                                              *)
(*   req, key the parsed request and cacheKey                              *)
(*   item     cachedItem                                                   *)
(*   st, hd, bd   statusLine, headers, body of prepareResponse             *)
(*   err      the error forwardRequest returned                            *)
(*   fwd      forwardRequest returned a response                           *)
(*   full     the body of that response can still be read in full          *)
(* and what it has done so far (kept to state properties):                 *)
(*   wrote    payloads passed to conn.Write, in order                      *)
(*   puts     the (key, item) pairs it gave to cache.Put, in order         *)
(*   gets     cache lookups it made                                        *)
(*   dials    outbound connections it opened                               *)
(*   target   its outbound connection: "none", "open" or "closed"          *)
(*   held     whether the index held its key just before its lookup        *)
(*   src      the bytes the storing handler of its cachedItem wrote        *)
(*   chg      whether one of its cache calls altered the cache             *)
(*   out      how the body of handleConnection ended                       *)
(***************************************************************************)
NewHandler ==
    [pc |-> "acquire", req |-> NoRequest, key |-> "", item |-> NoItem,
     st |-> "", hd |-> "", bd |-> "", full |-> TRUE, err |-> "", fwd |-> FALSE,
     wrote |-> << >>, puts |-> << >>, gets |-> 0, dials |-> 0, target |-> "none",
     held |-> FALSE, src |-> "", chg |-> FALSE, stale |-> FALSE, wok |-> FALSE,
     out |-> ""]

Handlers == BagToSet(conns)

\* the process has not exited: its goroutines can take steps
Alive == proc.alive

\* handler h takes a step and becomes g
Becomes(h, g) == conns' = (conns (-) SetToBag({h})) (+) SetToBag({g})

\* number of handlers in the bag satisfying P
RECURSIVE SumCopies(_)
SumCopies(S) ==
    IF S = {} THEN 0
    ELSE LET h == CHOOSE x \in S : TRUE
         IN  CopiesIn(h, conns) + SumCopies(S \ {h})

\* handlers past the semaphore acquisition and not yet returned
Admitted == SumCopies({h \in Handlers : h.pc # "acquire"})

Init ==
    /\ cap0 = ProxyCacheSize
    /\ cache = NewLRUCache(cap0)
    /\ hist = Call("New", "", NoItem, FALSE, 0, 0, NoItem)
    /\ useOrder = << >>
    /\ run = [ok |-> TRUE, ops |-> << >>]
    /\ mu = 0
    /\ th = << >>
    /\ lin = << >>
    /\ semaphore = 0
    /\ conns = EmptyBag
    /\ served = << >>
    /\ proc = ProcStart
    /\ clientOpen = 0
    /\ keyed = NoKeyed

\* main.go:51-63  Accept returns a connection; go s.handleConnection(conn)
Accept ==
    /\ Alive
    /\ proc.listener = "open"
    /\ proc.acceptor = "accept"
    /\ BagCardinality(conns) < NumConns
    /\ conns' = conns (+) SetToBag({NewHandler})
    /\ clientOpen' = clientOpen + 1
    /\ proc' = [proc EXCEPT !.last = "conn"]
    /\ UNCHANGED <<cache, cap0, histVars, concVars, semaphore, served, keyed>>

\* the channel send never blocking
SemSend_Unbounded(n) == TRUE

\* proxy.go:31  s.semaphore <- struct{}{} can complete: the buffer of the
\* channel made with capacity cfg.MaxClients (server.go:30) is not full
SemSend(n) == n < MaxClients

\* proxy.go:31-47  acquire the semaphore, register the deferred release,
\* recover and conn.Close, set the deadlines
Acquire(h) ==
    /\ Alive
    /\ h.pc = "acquire"
    /\ SemSend(semaphore)
    /\ semaphore' = semaphore + 1
    /\ Becomes(h, [h EXCEPT !.pc = "parse"])
    /\ UNCHANGED <<cache, cap0, histVars, concVars, served, otherVars>>

\* ParseFail answering the client with the 502 response
ParseFail_Answers(h) ==
    /\ Alive
    /\ h.pc = "parse"
    /\ Becomes(h, [h EXCEPT !.pc = "return", !.out = "parseError",
                            !.wrote = Append(h.wrote, badGatewayResponse)])
    /\ UNCHANGED <<cache, cap0, histVars, concVars, semaphore, served, otherVars>>

\* proxy.go:50-55  http.ReadRequest fails: log and return
ParseFail(h) ==
    /\ Alive
    /\ h.pc = "parse"
    /\ Becomes(h, [h EXCEPT !.pc = "return", !.out = "parseError"])
    /\ UNCHANGED <<cache, cap0, histVars, concVars, semaphore, served, otherVars>>

\* proxy.go:50-61  http.ReadRequest succeeds; cacheKey is computed
Parse(h, req) ==
    /\ Alive
    /\ h.pc = "parse"
    /\ Becomes(h, [h EXCEPT !.pc = "lookup", !.req = req, !.key = generateCacheKey(req)])
    /\ UNCHANGED <<cache, cap0, histVars, concVars, semaphore, served, otherVars>>

\* proxy.go:62  getCachedResponse(cacheKey)
CacheLookup(h) ==
    /\ Alive
    /\ h.pc = "lookup"
    /\ mu = 0
    /\ LET r   == getCachedResponse(cache, h.key)
           was == h.key \in IndexKeys(cache)
       IN  /\ cache' = r.cache
           /\ Becomes(h, [h EXCEPT !.pc = IF r.item # NoItem THEN "hit" ELSE "forward",
                                   !.item = r.item,
                                   !.held = was,
                                   !.gets = h.gets + 1,
                                   !.chg = (r.cache # cache),
                                   !.src = IF was THEN served[h.key] ELSE ""])
    /\ UNCHANGED <<cap0, histVars, concVars, semaphore, served, otherVars>>

\* proxy.go:63-64,106-112  sendCachedResponse, then return (a write error
\* is only logged)
SendCached(h) ==
    /\ Alive
    /\ h.pc = "hit"
    /\ Becomes(h, [h EXCEPT !.pc = "return", !.out = "hit",
                            !.stale = (h.key \notin IndexKeys(cache)
                                       \/ ValueOf(cache, h.key) # h.item),
                            !.wrote = Append(h.wrote,
                                cachedResponseData(Deref(h.item, h.key, cache)))])
    /\ UNCHANGED <<cache, cap0, histVars, concVars, semaphore, served, otherVars>>

\* proxy.go:68,124-133  forwardRequest: net.DialTimeout fails
DialFail(h) ==
    /\ Alive
    /\ h.pc = "forward"
    /\ Becomes(h, [h EXCEPT !.pc = "failed", !.err = "connect"])
    /\ UNCHANGED <<cache, cap0, histVars, concVars, semaphore, served, otherVars>>

\* proxy.go:68,124-137  forwardRequest: net.DialTimeout succeeds
Dial(h) ==
    /\ Alive
    /\ h.pc = "forward"
    /\ Becomes(h, [h EXCEPT !.pc = "exchange", !.dials = h.dials + 1, !.target = "open"])
    /\ UNCHANGED <<cache, cap0, histVars, concVars, semaphore, served, otherVars>>

ForwardErrors == {"read request body", "send request", "read response"}

\* proxy.go:150-168  forwardRequest fails after the dial: io.ReadAll of the
\* request body, targetConn.Write or http.ReadResponse returns an error;
\* the deferred targetConn.Close() runs
ExchangeFail(h, e) ==
    /\ Alive
    /\ h.pc = "exchange"
    /\ Becomes(h, [h EXCEPT !.pc = "failed", !.err = e, !.target = "closed"])
    /\ UNCHANGED <<cache, cap0, histVars, concVars, semaphore, served, otherVars>>

\* proxy.go:139-170  forwardRequest succeeds: the response head is parsed;
\* the deferred targetConn.Close() runs as forwardRequest returns, before
\* the body is read.  `full`: the whole body was already buffered, so that
\* the later io.ReadAll still succeeds.
Exchange(h, full) ==
    /\ Alive
    /\ h.pc = "exchange"
    /\ Becomes(h, [h EXCEPT !.pc = "respond", !.fwd = TRUE, !.full = full,
                            !.target = "closed"])
    /\ UNCHANGED <<cache, cap0, histVars, concVars, semaphore, served, otherVars>>

\* the failure branch returning without answering the client
SendError_Silent(h) ==
    /\ Alive
    /\ h.pc = "failed"
    /\ Becomes(h, [h EXCEPT !.pc = "return", !.out = "badGateway"])
    /\ UNCHANGED <<cache, cap0, histVars, concVars, semaphore, served, otherVars>>

\* proxy.go:69-73,114-119  log, sendErrorResponse, return (a write error
\* is only logged)
SendError(h) ==
    /\ Alive
    /\ h.pc = "failed"
    /\ Becomes(h, [h EXCEPT !.pc = "return", !.out = "badGateway",
                            !.wrote = Append(h.wrote, badGatewayResponse)])
    /\ UNCHANGED <<cache, cap0, histVars, concVars, semaphore, served, otherVars>>

\* handleConnection going on to cacheResponse whatever conn.Write returned
Respond_StoreAnyway(h, ok) ==
    /\ Alive
    /\ h.pc = "respond"
    /\ LET p == prepareResponse(OriginResponse(h.req), h.full)
           d == responseData(p.statusLine, p.headers, p.body)
       IN  Becomes(h, [h EXCEPT !.pc = "store",
                               !.out = "",
                               !.wok = ok,
                               !.st = p.statusLine, !.hd = p.headers, !.bd = p.body,
                               !.wrote = Append(h.wrote, d)])
    /\ UNCHANGED <<cache, cap0, histVars, concVars, semaphore, served, otherVars>>

\* proxy.go:74-83  prepareResponse, build responseData, conn.Write; on a
\* write error log and return
Respond(h, ok) ==
    /\ Alive
    /\ h.pc = "respond"
    /\ LET p == prepareResponse(OriginResponse(h.req), h.full)
           d == responseData(p.statusLine, p.headers, p.body)
       IN  Becomes(h, [h EXCEPT !.pc = IF ok THEN "store" ELSE "return",
                               !.out = IF ok THEN "" ELSE "writeError",
                               !.wok = ok,
                               !.st = p.statusLine, !.hd = p.headers, !.bd = p.body,
                               !.wrote = Append(h.wrote, d)])
    /\ UNCHANGED <<cache, cap0, histVars, concVars, semaphore, served, otherVars>>

\* proxy.go:86-88  cacheResponse (cache.Put), log, return
Store(h) ==
    /\ Alive
    /\ h.pc = "store"
    /\ mu = 0
    /\ HasFree(cache)
    /\ LET a == cacheResponse(h.key, h.st, h.hd, h.bd)
       IN  /\ cache' = Put(cache, a.key, a.item)
           /\ served' = [k \in IndexKeys(cache') |->
                            IF k = a.key THEN h.wrote[Len(h.wrote)] ELSE served[k]]
           /\ Becomes(h, [h EXCEPT !.pc = "return", !.out = "stored",
                                   !.chg = (h.chg \/ cache' # cache),
                                   !.puts = Append(h.puts, a)])
    /\ UNCHANGED <<cap0, histVars, concVars, semaphore, otherVars>>

\* a panic that no deferred function recovers ends the process
Recover_None(p) == [p EXCEPT !.alive = FALSE]

\* proxy.go:37-41  the deferred recover() stops the panic inside the handler
Recover(p) == p

\* a runtime panic raised by the statement the handler is about to execute,
\* anywhere after the deferred functions are registered: the function body
\* is abandoned, its locals are dead, and the deferred functions run
\* (forwardRequest's deferred targetConn.Close() among them)
Panic(h) ==
    /\ Alive
    /\ h.pc \in {"parse", "lookup", "hit", "forward", "exchange", "failed", "respond", "store"}
    /\ Becomes(h, [NewHandler EXCEPT !.pc = "return", !.out = "panic",
                                     !.target = IF h.target = "open" THEN "closed"
                                                ELSE h.target])
    /\ proc' = Recover(proc)
    /\ UNCHANGED <<cache, cap0, histVars, concVars, semaphore, served, clientOpen, keyed>>

\* a release that is not deferred and is skipped by the early returns
SemReceive_NotOnEarlyReturn(n, h) ==
    IF h.out \in {"parseError", "hit", "badGateway", "writeError"} THEN n ELSE n - 1

\* deferred release that skips the receive after a panic
SemReceive_NotOnPanic(n, h) == IF h.out = "panic" THEN n ELSE n - 1

\* proxy.go:32-34  the deferred <-s.semaphore
SemReceive(n, h) == n - 1

\* the connection left open when the handler ends by a panic
ConnClose_NotOnPanic(n, h) == IF h.out = "panic" THEN n ELSE n - 1

\* proxy.go:47  the deferred conn.Close()
ConnClose(n, h) == n - 1

\* proxy.go:32-47,74  handleConnection returns: the deferred
\* response.Body.Close(), conn.Close(), recover() and semaphore receive run
\* and the goroutine ends
Return(h) ==
    /\ Alive
    /\ h.pc = "return"
    /\ semaphore' = SemReceive(semaphore, h)
    /\ conns' = conns (-) SetToBag({h})
    /\ clientOpen' = ConnClose(clientOpen, h)
    /\ UNCHANGED <<cache, cap0, histVars, concVars, served, proc, keyed>>

\* proxy.go:29-88  one step of the handler h, its request drawn from reqs
Handle(h, reqs) ==
    \/ Acquire(h)
    \/ ParseFail(h)
    \/ \E req \in reqs : Parse(h, req)
    \/ CacheLookup(h)
    \/ SendCached(h)
    \/ DialFail(h)
    \/ Dial(h)
    \/ \E e \in ForwardErrors : ExchangeFail(h, e)
    \/ \E full \in BOOLEAN : Exchange(h, full)
    \/ SendError(h)
    \/ \E ok \in BOOLEAN : Respond(h, ok)
    \/ Store(h)
    \/ Panic(h)
    \/ Return(h)

Next ==
    \/ Accept
    \/ \E h \in Handlers : Handle(h, Requests)

Spec == Init /\ [][Next]_vars

(***************************************************************************)
(* Properties of the proxy (Spec).  "Writes" is what a handler passes to   *)
(* conn.Write; a handler abandoned by a runtime panic keeps no locals and  *)
(* is outside C8, C9 and C10.                                              *)
(***************************************************************************)
\* C1: at most MaxClients handleConnection executions are past the
\* semaphore acquisition, however many connections have been accepted.
C1_AdmissionBound == Admitted <= MaxClients

\* more connections accepted than tokens: the ceiling is met and one waits
C1_Witness ==
    /\ Admitted = MaxClients
    /\ \E h \in Handlers : h.pc = "acquire"

\* C2: the number of tokens in the semaphore equals the number of handlers
\* past admission and not yet returned, in every state; so each handler's
\* return, on whatever path, gives back exactly its one token.
C2_TokenAccounting == semaphore = Admitted

\* two handlers about to return on different paths, one of them by a panic,
\* each still holding its token
C2_Witness ==
    /\ semaphore = 2
    /\ \E h \in Handlers : h.pc = "return" /\ h.out = "panic"
    /\ \E h \in Handlers : h.pc = "return" /\ h.out \in {"badGateway", "parseError", "writeError"}

\* the fixed 502 response, spelled out
C8_Fixed502 ==
    "HTTP/1.1 502 Bad Gateway\r\nContent-Type: text/plain\r\nContent-Length: 57\r\nConnection: close\r\n\r\nThe target server is unavailable. Please try again later."

\* C8: a handler whose forward failed (connect, request-body read, send or
\* response read) was a miss, has dialled at most once, has made no Put and
\* no cache call of its that altered the cache; it has written nothing
\* before sendErrorResponse and exactly the fixed 502 response when it
\* returns.
C8_ForwardingFailure ==
    \A h \in Handlers :
        h.err # "" =>
            /\ h.item = NoItem /\ ~h.held
            /\ h.dials <= 1
            /\ h.puts = << >>
            /\ ~h.chg
            /\ h.pc \in {"failed", "return"}
            /\ h.pc = "failed" => h.wrote = << >>
            /\ h.pc = "return" => h.wrote = <<C8_Fixed502>>

\* a handler returning after a failure that followed a successful dial
C8_Witness ==
    \E h \in Handlers :
        h.pc = "return" /\ h.err = "read response" /\ h.dials = 1 /\ h.wrote # << >>

\* C9: a handler whose key was in the cache at its lookup got that entry,
\* never dials and never forwards; when it returns it has written exactly
\* status + headers + CRLF + body of the entry, which are the bytes the
\* handler that stored the entry wrote to its own client.
C9_CacheHit ==
    \A h \in Handlers :
        h.held =>
            /\ h.item # NoItem
            /\ h.pc \in {"hit", "return"}
            /\ h.dials = 0 /\ ~h.fwd /\ h.err = "" /\ h.puts = << >>
            /\ h.pc = "hit" => h.wrote = << >>
            /\ h.pc = "return" =>
                /\ h.wrote = <<h.item.Status \o h.item.Header \o "\r\n" \o h.item.Body>>
                /\ h.wrote = <<h.src>>

\* a hit has been answered
C9_Witness ==
    \E h \in Handlers : h.held /\ h.pc = "return" /\ Len(h.wrote) = 1

C11_OutboundLifetime ==
    \A h \in Handlers :
        /\ (h.fwd /\ h.target = "closed") => h.full
        /\ h.pc = "return" => h.target # "open"
        /\ h.dials <= 1

\* the handlers that end by a recovered panic in this step
PanickedNow ==
    {g \in BagToSet(conns') : g.out = "panic" /\ CopiesIn(g, conns') > CopiesIn(g, conns)}

\* C14: a step in which a handler panics changes that handler only: the
\* process stays alive with its accept loop where it was, every other
\* handler, the cache, the semaphore and the open connections are as
\* before, and the tokens still equal the handlers past admission; the
\* step in which the panicked handler then returns closes its connection
\* and gives back its token, and changes nothing else.
C14_FaultContainment ==
    [][ /\ \A g \in PanickedNow :
              /\ \E h \in Handlers : conns' = (conns (-) SetToBag({h})) (+) SetToBag({g})
              /\ proc' = proc /\ proc.alive
              /\ cache' = cache /\ served' = served
              /\ semaphore' = semaphore /\ semaphore' = Admitted'
              /\ clientOpen' = clientOpen
        /\ \A h \in Handlers :
              (h.out = "panic" /\ conns' = conns (-) SetToBag({h})) =>
                  /\ h.pc = "return"
                  /\ clientOpen' = clientOpen - 1
                  /\ semaphore' = semaphore - 1 /\ semaphore' = Admitted'
                  /\ proc' = proc /\ proc.alive
                  /\ cache' = cache /\ served' = served ]_vars

\* a handler has panicked while another one is in the middle of a forward
\* and a third connection waits for admission
C14_Witness ==
    /\ proc.alive
    /\ \E h \in Handlers : h.pc = "return" /\ h.out = "panic"
    /\ \E h \in Handlers : h.pc = "exchange"
    /\ \E h \in Handlers : h.pc = "acquire"

\* C15: a handler whose request could not be read has written nothing,
\* made no cache lookup and no Put, altered no cache state and dialled
\* nothing; its next and only step is to return, which closes its
\* connection, gives back its token and leaves the cache as it is.
C15_ParseFailure ==
    [][ \A h \in Handlers :
          h.out = "parseError" =>
              /\ h.pc = "return"
              /\ h.wrote = << >>
              /\ h.gets = 0 /\ h.puts = << >> /\ ~h.chg
              /\ h.dials = 0 /\ h.target = "none"
              /\ CopiesIn(h, conns') < CopiesIn(h, conns) =>
                    /\ conns' = conns (-) SetToBag({h})
                    /\ clientOpen' = clientOpen - 1
                    /\ semaphore' = semaphore - 1
                    /\ cache' = cache ]_vars

\* a handler is about to return after a parse failure while the cache
\* holds an entry
C15_Witness ==
    /\ Size(cache) > 0
    /\ \E h \in Handlers : h.pc = "return" /\ h.out = "parseError"

(***************************************************************************)
(* SpecServer: the whole process.  Start's accept loop, the signal         *)
(* goroutine and the handlers of Spec; when the process exits every        *)
(* goroutine stops where it is.                                            *)
(***************************************************************************)
\* an accept error taken for the end of the loop
OnAcceptError_Return(p) == [p EXCEPT !.last = "error", !.acceptor = "returned"]

\* main.go:58-59  any other error: log and continue
OnAcceptError(p) == [p EXCEPT !.last = "error"]

\* main.go:52-60  listener.Accept() fails while the listener is open
AcceptError ==
    /\ Alive
    /\ proc.listener = "open"
    /\ proc.acceptor = "accept"
    /\ proc' = OnAcceptError(proc)
    /\ UNCHANGED <<cache, cap0, histVars, concVars, semaphore, conns, served, clientOpen, keyed>>

\* main.go:52-57  listener.Accept() fails with net.ErrClosed: Start returns nil
AcceptClosed ==
    /\ Alive
    /\ proc.listener = "closed"
    /\ proc.acceptor = "accept"
    /\ proc' = [proc EXCEPT !.acceptor = "returned", !.last = "closed"]
    /\ UNCHANGED <<cache, cap0, histVars, concVars, semaphore, conns, served, clientOpen, keyed>>

\* main.go:43-46  the signal goroutine receives SIGINT or SIGTERM and closes
\* the listener
Signal ==
    /\ Alive
    /\ proc.sig = "waiting"
    /\ proc' = [proc EXCEPT !.sig = "closing", !.listener = "closed"]
    /\ UNCHANGED <<cache, cap0, histVars, concVars, semaphore, conns, served, clientOpen, keyed>>

\* main.go:47  os.Exit(0), the statement after listener.Close()
OsExit ==
    /\ Alive
    /\ proc.sig = "closing"
    /\ proc' = [proc EXCEPT !.alive = FALSE]
    /\ UNCHANGED <<cache, cap0, histVars, concVars, semaphore, conns, served, clientOpen, keyed>>

\* main.go:22-25  Start has returned nil: main returns and the process ends
MainReturn ==
    /\ Alive
    /\ proc.acceptor = "returned"
    /\ proc' = [proc EXCEPT !.alive = FALSE]
    /\ UNCHANGED <<cache, cap0, histVars, concVars, semaphore, conns, served, clientOpen, keyed>>

\* the requests sent to the server under SpecServer
ServerRequests == {Request("GET", "a.test", "/x", "")}

NextServer ==
    \/ Accept
    \/ \E h \in Handlers : Handle(h, ServerRequests)
    \/ AcceptError
    \/ AcceptClosed
    \/ Signal
    \/ OsExit
    \/ MainReturn

SpecServer == Init /\ [][NextServer]_vars

\* C12: once the listener is closed no connection is accepted any more, and
\* the process does not exit while a handler is past admission and has not
\* returned.
C12_GracefulShutdown ==
    [][ /\ proc.listener = "closed" => clientOpen' <= clientOpen
        /\ ~proc'.alive => Admitted' = 0 ]_vars

\* C19: the accept loop returns only from an Accept that failed because the
\* listener was closed; an Accept failing otherwise leaves the loop at
\* Accept; an accepted connection only adds a handler, waiting for
\* admission, and leaves the loop at Accept without taking a token; and
\* while the listener is open the loop can accept, however many handlers
\* are past admission.
C19_AcceptLoop ==
    [][ /\ (proc.acceptor = "accept" /\ proc'.acceptor = "returned") =>
              (proc.listener = "closed" /\ proc'.last = "closed" /\ conns' = conns)
        /\ (proc.last # "error" /\ proc'.last = "error") =>
              (proc'.acceptor = "accept" /\ proc'.alive /\ conns' = conns)
        /\ clientOpen' > clientOpen =>
              /\ conns' = conns (+) SetToBag({NewHandler})
              /\ semaphore' = semaphore
              /\ proc'.acceptor = "accept" /\ proc'.last = "conn"
        /\ (proc.alive /\ proc.listener = "open" /\ BagCardinality(conns) < NumConns) =>
              (proc.acceptor = "accept" /\ ENABLED Accept) ]_vars

\* the loop's last event is an accepted connection, it is back at Accept,
\* MaxClients handlers are past admission and another one waits
C19_Witness ==
    /\ proc.alive /\ proc.acceptor = "accept" /\ proc.last = "conn"
    /\ Admitted = MaxClients
    /\ \E h \in Handlers : h.pc = "acquire"

\* C13: every handler that acquired a token reaches its end with its
\* connection closed and its token given back: a returned handler leaves no
\* connection open, and when the process has ended no token is still held.
C13_HandlerTermination ==
    /\ clientOpen = BagCardinality(conns)
    /\ ~proc.alive => semaphore = 0

(***************************************************************************)
(* Properties of the cache (SpecCache).                                    *)
(***************************************************************************)
\* the least recently used of the keys present: the one whose latest Put or
\* Get-hit is oldest
LRUKey(keys, order) ==
    LET o == SelectSeq(order, LAMBDA x : x \in keys)
    IN  o[Len(o)]

\* C3: for a cache constructed with capacity N >= 0, after every Put (and
\* every other call) Size() <= Capacity(), and Capacity() is always the
\* value given at construction.
C3_CapacityInvariant ==
    /\ Capacity(cache) = cap0
    /\ cap0 >= 0 => Size(cache) <= Capacity(cache)

\* a Put of a fresh key into a full cache of capacity >= 1 has completed
C3_Witness ==
    /\ hist.op = "Put" /\ hist.pos = 0
    /\ cap0 >= 1
    /\ Size(cache) = Capacity(cache)
    /\ run.ok /\ PutsOnly(run) /\ Len(run.ops) > cap0

C4_PutStep ==
    hist'.op = "Put" =>
        LET k      == hist'.key
            evicts == /\ k \notin IndexKeys(cache)
                      /\ Cardinality(IndexKeys(cache)) = Capacity(cache)
                      /\ Capacity(cache) >= 1
        IN  IF evicts
            THEN LET victim == LRUKey(IndexKeys(cache), useOrder)
                 IN  /\ victim \in IndexKeys(cache)
                     /\ IndexKeys(cache') = (IndexKeys(cache) \cup {k}) \ {victim}
                     /\ ListKeys(cache') = <<k>> \o Without(ListKeys(cache), victim)
                     /\ Size(cache') = Size(cache)
            ELSE /\ IndexKeys(cache) \subseteq IndexKeys(cache')
                 /\ SeqRange(ListKeys(cache)) \subseteq SeqRange(ListKeys(cache'))

C4_Scenario ==
    (run'.ok /\ PutsOnly(run') /\ cap0 >= 1 /\ Len(run'.ops) = cap0 + 1) =>
        /\ ~Get(cache', run'.ops[1].key).found
        /\ \A i \in 2..(cap0 + 1) : Get(cache', run'.ops[i].key).found

\* C4: a Put of an absent key into a cache holding Capacity() >= 1 entries
\* removes exactly one entry, the least recently used one, from the index
\* and from the recency list; no other Put removes an entry that was
\* present; after Puts of N+1 distinct keys into a fresh capacity-N cache
\* the first key misses and the other N hit.
C4_EvictionVictim == [][C4_PutStep /\ C4_Scenario]_vars

\* N+1 distinct keys have just been Put into a fresh cache of capacity N >= 2
C4_Witness ==
    /\ hist.op = "Put"
    /\ run.ok /\ PutsOnly(run)
    /\ cap0 >= 2
    /\ Len(run.ops) = cap0 + 1

C5_GetStep ==
    (hist'.op = "Get" /\ hist'.found) =>
        LET K == hist'.key
        IN  /\ cache'.head # Nil
            /\ cache'.node[cache'.head].key = K
            /\ ListKeys(cache') = <<K>> \o Without(ListKeys(cache), K)
            /\ IndexKeys(cache') = IndexKeys(cache)
            /\ Size(cache') >= 2 =>
                 \A k2 \in CacheKeys \ IndexKeys(cache'), v \in CacheItems :
                     K \in IndexKeys(Put(cache', k2, v))

C5_Scenario ==
    (run'.ok /\ cap0 = 2 /\ Len(run'.ops) = 4 /\ run'.ops[3].op = "Get") =>
        LET A == run'.ops[1].key
            B == run'.ops[2].key
            C == run'.ops[4].key
        IN  /\ IndexKeys(cache') = {A, C}
            /\ B \notin IndexKeys(cache')
            /\ Get(cache', A).found

\* C5: a Get that hits K makes K the head of the recency list whatever its
\* previous position, the other keys keeping their order; with two or more
\* entries a Put that evicts right after it removes a key other than K;
\* with capacity 2, Put(A), Put(B), Get(A), Put(C) evicts B and A still hits.
C5_RecencyRefresh == [][C5_GetStep /\ C5_Scenario]_vars

\* capacity 2: Put(A), Put(B), Get(A), Put(C) has just completed
C5_ScenarioReached ==
    run.ok /\ cap0 = 2 /\ Len(run.ops) = 4 /\ run.ops[3].op = "Get"

\* a Get has just hit a key that stood in the middle of a three-entry list
C5_Witness ==
    /\ hist.op = "Get" /\ hist.found
    /\ hist.pos = 2
    /\ Size(cache) = 3
    /\ cache.node[cache.head].key = hist.key

C6_PutStep ==
    (hist'.op = "Put" /\ hist'.key \in IndexKeys(cache)) =>
        LET K == hist'.key
            r == Get(cache', K)
        IN  /\ r.found /\ r.item = hist'.item
            /\ ListKeys(cache') = <<K>> \o Without(ListKeys(cache), K)
            /\ Size(cache') = Size(cache)
            /\ IndexKeys(cache') = IndexKeys(cache)
            /\ \A k \in IndexKeys(cache) \ {K} : ValueOf(cache', k) = ValueOf(cache, k)

\* C6: Put(K, V2) on a key already present makes a following Get(K) return
\* V2, moves K to the head of the recency list, leaves Size() and the key
\* set unchanged (nothing is evicted) and keeps every other value, whatever
\* position K had.
C6_UpdateInPlace == [][C6_PutStep]_vars

\* a Put has just replaced, by a different value, the value of a key that
\* stood in the middle of a three-entry list
C6_Witness ==
    /\ hist.op = "Put"
    /\ hist.pos = 2
    /\ hist.old # hist.item
    /\ Size(cache) = 3
    /\ ValueOf(cache, hist.key) = hist.item

\* C16: a Get of a key the index does not hold returns (false, nil) and
\* leaves the index, the recency order, the size and every stored value as
\* they were; Size() and Capacity() return the size and the capacity and
\* change nothing of the cache.
C16_MissIsPureRead ==
    [][ /\ (hist'.op = "Get" /\ hist'.key \notin IndexKeys(cache)) =>
              /\ ~hist'.found /\ hist'.item = NoItem
              /\ IndexKeys(cache') = IndexKeys(cache)
              /\ ListKeys(cache') = ListKeys(cache)
              /\ Size(cache') = Size(cache)
              /\ \A k \in IndexKeys(cache) : ValueOf(cache', k) = ValueOf(cache, k)
              /\ cache' = cache
        /\ hist'.op = "Size" => (hist'.ret = Size(cache) /\ cache' = cache)
        /\ hist'.op = "Capacity" => (hist'.ret = Capacity(cache) /\ cache' = cache) ]_vars

\* a Get has missed on a cache holding two entries
C16_Witness ==
    /\ hist.op = "Get" /\ ~hist.found /\ hist.pos = 0
    /\ Size(cache) >= 2

\* C17: a cache constructed with capacity <= 0 is empty in every state
\* between calls (size 0, empty index, head and tail nil), whatever Puts
\* have been made, and every Get on it misses.
C17_NonPositiveCapacity ==
    cap0 <= 0 =>
        /\ Size(cache) = 0
        /\ IndexKeys(cache) = {}
        /\ cache.head = Nil /\ cache.tail = Nil
        /\ ListKeys(cache) = << >>
        /\ hist.op = "Get" => (~hist.found /\ hist.item = NoItem)

\* on a cache of negative capacity, two Puts and then a Get of the first
\* key put
C17_Witness ==
    /\ cap0 < 0
    /\ run.ok /\ Len(run.ops) = 3
    /\ run.ops[1].op = "Put" /\ run.ops[2].op = "Put"
    /\ run.ops[3] = [op |-> "Get", key |-> run.ops[1].key]
    /\ hist.op = "Get" /\ hist.key = run.ops[1].key

(***************************************************************************)
(* SpecKey: generateCacheKey applied to two requests.  http.ReadRequest    *)
(* takes Host from the Host header as sent (it does not validate it), the  *)
(* path from the request target, and accepts only token methods (no ":").  *)
(***************************************************************************)
KeyMethods == {"GET", "POST"}

KeyHosts == {"a", "a:8080", "a:/x"}

KeyPaths == {"/y", "/x:/y"}

KeyQueries == {"", "q=1"}

KeyHeaders == {"", "Accept: */*"}

KeyRequests ==
    [Method : KeyMethods, Host : KeyHosts, Path : KeyPaths, Query : KeyQueries,
     Header : KeyHeaders]

InitKey ==
    /\ cap0 = ProxyCacheSize
    /\ cache = NewLRUCache(cap0)
    /\ hist = Call("New", "", NoItem, FALSE, 0, 0, NoItem)
    /\ useOrder = << >>
    /\ run = [ok |-> TRUE, ops |-> << >>]
    /\ mu = 0
    /\ th = << >>
    /\ lin = << >>
    /\ semaphore = 0
    /\ conns = EmptyBag
    /\ served = << >>
    /\ proc = ProcStart
    /\ clientOpen = 0
    /\ keyed \in [a : KeyRequests, b : KeyRequests, ka : {""}, kb : {""}, done : {FALSE}]

\* proxy.go:61  cacheKey := s.generateCacheKey(request), for both requests
DeriveKeys ==
    /\ ~keyed.done
    /\ keyed' = [keyed EXCEPT !.ka = generateCacheKey(keyed.a),
                              !.kb = generateCacheKey(keyed.b),
                              !.done = TRUE]
    /\ UNCHANGED <<cache, cap0, histVars, concVars, semaphore, conns, served, proc, clientOpen>>

NextKey == DeriveKeys

SpecKey == InitKey /\ [][NextKey]_vars

\* C18: two requests with the same host, path and method get the same key
\* whatever their query strings and headers; two requests that differ in
\* host, path or method get different keys.
C18_KeyDerivation ==
    keyed.done =>
        LET a == keyed.a
            b == keyed.b
        IN  /\ (a.Host = b.Host /\ a.Path = b.Path /\ a.Method = b.Method)
                  => keyed.ka = keyed.kb
            /\ (a.Host # b.Host \/ a.Path # b.Path \/ a.Method # b.Method)
                  => keyed.ka # keyed.kb

Reverse(q) == [i \in 1..Len(q) |-> q[Len(q) + 1 - i]]

\* C20: between cache calls the nodes met from head along next are those
\* of the index, each key once; size is the number of index entries;
\* head.prev and tail.next are nil; head is nil iff tail is nil iff the
\* cache is empty; and the walk from tail along prev meets the same nodes
\* in reverse order.
C20_StructuralConsistency ==
    LET L == ListNodes(cache)
        B == WalkPrev(cache, cache.tail, MaxNodes + 1)
        K == IndexKeys(cache)
    IN  /\ Len(L) = Cardinality(K)
        /\ \A i \in 1..Len(L) :
              /\ cache.node[L[i]].key \in K
              /\ cache.items[cache.node[L[i]].key] = L[i]
        /\ \A i, j \in 1..Len(L) : L[i] = L[j] => i = j
        /\ Size(cache) = Cardinality(K)
        /\ cache.head # Nil => cache.node[cache.head].prev = Nil
        /\ cache.tail # Nil => cache.node[cache.tail].next = Nil
        /\ (cache.head = Nil) = (cache.tail = Nil)
        /\ (cache.head = Nil) = (Size(cache) = 0)
        /\ B = Reverse(L)

\* a Put has updated the entry at the tail of a list of three and moved it
\* to the front
C20_Witness ==
    /\ hist.op = "Put" /\ hist.pos = 3
    /\ Size(cache) = 3
    /\ ListKeys(cache)[1] = hist.key

\* an admitted handler has a step it can take: none of its statements waits
\* for another handler, except for the cache mutex
CanProgress(g) ==
    \/ g.pc \in {"parse", "hit", "forward", "exchange", "failed", "respond", "return"}
    \/ g.pc = "lookup" /\ mu = 0
    \/ g.pc = "store" /\ mu = 0 /\ HasFree(cache)

\* C21: with MaxClients >= 1, whenever a handler waits at the semaphore
\* send, either the send can complete (a token is free) or some handler
\* past admission can still take a step towards its release; and tokens
\* are outstanding only for such handlers.
C21_NoAdmissionDeadlock ==
    MaxClients >= 1 =>
        \A h \in Handlers :
            h.pc = "acquire" =>
                \/ semaphore < MaxClients /\ ENABLED Acquire(h)
                \/ /\ semaphore = Admitted
                   /\ \E g \in Handlers : g.pc # "acquire" /\ CanProgress(g)

\* a handler waits while every token is held by a handler that has only
\* its return left
C21_Witness ==
    /\ semaphore = MaxClients
    /\ \E h \in Handlers : h.pc = "acquire"
    /\ \A g \in Handlers : g.pc # "acquire" => g.pc = "return"

\* the handlers whose cacheResponse completes in this step
StoredNow ==
    {g \in BagToSet(conns') : g.out = "stored" /\ CopiesIn(g, conns') > CopiesIn(g, conns)}

\* C22: a handler that missed on its key is never kept from forwarding by
\* another handler's miss on the same key: it dials on its own.  When its
\* Put completes, whether or not another handler stored the same key
\* before, the cache holds the key once, with the value of this Put (the
\* last completed one), and the size counts it once.
C22_ConcurrentMisses ==
    [][ /\ \A h \in Handlers :
              (h.pc \in {"forward", "exchange", "respond", "store"}) =>
                  (~h.held /\ h.dials = (IF h.pc = "forward" THEN 0 ELSE 1) /\ CanProgress(h))
        /\ \A g \in StoredNow :
              LET K == g.key
                  L == ListKeys(cache')
              IN  /\ g.dials = 1
                  /\ K \in IndexKeys(cache')
                  /\ ValueOf(cache', K) = g.puts[1].item
                  /\ Cardinality({i \in 1..Len(L) : L[i] = K}) = 1
                  /\ Size(cache') = Cardinality(IndexKeys(cache'))
                  /\ K \in IndexKeys(cache) =>
                        (Size(cache') = Size(cache) /\ IndexKeys(cache') = IndexKeys(cache)) ]_vars

\* two handlers that both missed on the same key and forwarded have both
\* stored, with different values; the cache holds the key once
C22_Witness ==
    \E h, g \in Handlers :
        /\ h # g /\ h.key = g.key
        /\ h.pc = "return" /\ h.out = "stored" /\ ~h.held /\ h.dials = 1
        /\ g.pc = "return" /\ g.out = "stored" /\ ~g.held /\ g.dials = 1
        /\ h.puts[1].item # g.puts[1].item
        /\ Size(cache) = 1 /\ IndexKeys(cache) = {h.key}

RequestOfKey(k) == CHOOSE r \in Requests : generateCacheKey(r) = k

\* C24: whenever a forward is treated as successful, the body the handler
\* writes to its client and the body it stores equal the complete body the
\* origin sent, and every entry of the cache carries the origin's body for
\* its key.
C24_BodyIntegrity ==
    /\ \A h \in Handlers :
          (h.fwd /\ h.pc \in {"store", "return"}) =>
              /\ h.bd = OriginResponse(h.req).Body
              /\ h.wrote = <<responseData(h.st, h.hd, OriginResponse(h.req).Body)>>
              /\ \A i \in 1..Len(h.puts) :
                    h.puts[i].item.Body = OriginResponse(h.req).Body
    /\ \A k \in IndexKeys(cache) :
          ValueOf(cache, k).Body = OriginResponse(RequestOfKey(k)).Body

====
